---- MODULE Spec2Model ----
(***************************************************************************)
(* Model of sentry/hooks.py: the configuration resolver get_config, the    *)
(* git commit resolver get_odoo_commit, the pre-send hook before_send and  *)
(* the initializer initialize_sentry (called by post_load).                *)
(*                                                                         *)
(* Python values are strings: None is "<None>", True is "<True>", False is *)
(* "<False>"; every other string is itself.  A dict is a function whose    *)
(* DOMAIN is the set of keys present.                                      *)
(***************************************************************************)
EXTENDS Integers, Sequences, FiniteSets, TLC

VARIABLES
    environ,          \* os.environ, restricted to ODOO_STAGE
    odoo_config,      \* odoo.tools.config: the keys present and their values
    HAS_SENTRY_SDK,   \* whether the import of sentry_sdk succeeded
    server,           \* truth value of odoo.service.server.server
    server_app,       \* number of SentryWsgiMiddleware layers around server.app
    Application,      \* number of SentryWsgiMiddleware layers around odoo.http.Application
    sdk_inits,        \* the options of every sentry_sdk.init call, in order
    sdk_tags,         \* tags set with sentry_sdk.set_tag
    ignored_loggers,  \* logger names handed to ignore_logger
    log,              \* records emitted on _logger, in order: <<level, message>>
    warned,           \* categories handed to warnings.warn
    git_repos,        \* the file system: directory of a git repository -> commit of HEAD
    git_reads,        \* the directories fetch_git_sha was called with
    pc,               \* position of the running initialize_sentry ("idle": none)
    options,          \* initialize_sentry's local: options
    exclude_loggers,  \* initialize_sentry's local: exclude_loggers
    call,             \* the last top-level call: [op, args, ret]
    event0,           \* before_send: the event as it was passed
    event,            \* before_send: the event object (mutated in place)
    hint,             \* before_send: the hint
    request_ctx,      \* what get_extra_context(odoo.http.request) returns
    propagate,        \* logging: logger name -> its propagate flag
    bs_ret            \* before_send: what the call did

vars == <<environ, odoo_config, HAS_SENTRY_SDK, server, server_app, Application,
          sdk_inits, sdk_tags, ignored_loggers, log, warned, git_repos, git_reads, pc,
          options, exclude_loggers, call, event0, event, hint, request_ctx,
          propagate, bs_ret>>

hostVars == <<environ, odoo_config, HAS_SENTRY_SDK, server, git_repos>>
sdkVars == <<sdk_inits, sdk_tags, ignored_loggers>>
wsgiVars == <<server_app, Application>>
filterVars == <<event0, event, hint, request_ctx, propagate, bs_ret>>

----------------------------------------------------------------------------
(* Python values *)

None == "<None>"
True == "<True>"
False == "<False>"

\* Python truth value of a string-encoded value
Truthy(v) == v \notin {None, False, ""}

EmptyDict == [k \in {} |-> ""]

\* dict.get(k, default)
DictGet(d, k, default) == IF k \in DOMAIN d THEN d[k] ELSE default

\* the dict after d[k] = v
DictSet(d, k, v) == [x \in DOMAIN d \cup {k} |-> IF x = k THEN v ELSE d[x]]

\* the dict after del d[k]
DictDel(d, k) == [x \in DOMAIN d \ {k} |-> d[x]]

----------------------------------------------------------------------------
(* Bounds *)

\* non-skipped initialize_sentry calls explored
MaxWraps == 2

\* log records explored in a run of get_odoo_commit calls
MaxLog == 2

----------------------------------------------------------------------------
(* str methods used by the converters *)

RECURSIVE LStrip(_)
\* str.lstrip(): leading blanks removed
LStrip(s) ==
    IF Len(s) > 0 /\ SubSeq(s, 1, 1) = " " THEN LStrip(SubSeq(s, 2, Len(s))) ELSE s

RECURSIVE RStrip(_)
\* str.rstrip(): trailing blanks removed
RStrip(s) ==
    IF Len(s) > 0 /\ SubSeq(s, Len(s), Len(s)) = " "
    THEN RStrip(SubSeq(s, 1, Len(s) - 1))
    ELSE s

\* str.strip()
Strip(s) == RStrip(LStrip(s))

RECURSIVE StrSplit(_, _)
\* str.split(delimiter), for a one-character delimiter
StrSplit(s, delimiter) ==
    LET hits == {i \in 1..Len(s) : SubSeq(s, i, i) = delimiter} IN
    IF hits = {} THEN <<s>>
    ELSE LET i == CHOOSE j \in hits : \A h \in hits : j <= h IN
         <<SubSeq(s, 1, i - 1)>> \o StrSplit(SubSeq(s, i + 1, Len(s)), delimiter)

----------------------------------------------------------------------------
(* const.py and logutils.py: the parts hooks.py uses *)

\* const.DEFAULT_IGNORED_EXCEPTIONS: the fixed list of ignored qualified names
DEFAULT_IGNORED_EXCEPTIONS ==
    <<"odoo.exceptions.AccessError", "odoo.exceptions.UserError">>

\* a membership test that stops at the head of the list
InIgnored_head_only(name) ==
    DEFAULT_IGNORED_EXCEPTIONS # <<>> /\ DEFAULT_IGNORED_EXCEPTIONS[1] = name

\* name in DEFAULT_IGNORED_EXCEPTIONS
InIgnored(name) ==
    \E i \in DOMAIN DEFAULT_IGNORED_EXCEPTIONS : DEFAULT_IGNORED_EXCEPTIONS[i] = name

DEFAULT_EXCLUDE_LOGGERS == "werkzeug"

\* const.split_multiple(string): split on "," and strip every value
split_multiple(string) ==
    IF ~Truthy(string) THEN <<>>
    ELSE LET parts == StrSplit(string, ",") IN [i \in DOMAIN parts |-> Strip(parts[i])]

\* const.get_sentry_logging(level): the logging integration for a level name
get_sentry_logging(level) == "LoggingIntegration(" \o level \o ")"

\* const.get_sentry_options(): the option table (key, default, converter)
get_sentry_options ==
    << [key |-> "dsn", default |-> "", converter |-> "strip"],
       [key |-> "release", default |-> None, converter |-> "<None>"],
       [key |-> "environment", default |-> None, converter |-> "<None>"],
       [key |-> "ignore_exceptions", default |-> DEFAULT_IGNORED_EXCEPTIONS,
        converter |-> "<None>"],
       [key |-> "logging_level", default |-> "warn", converter |-> "get_sentry_logging"] >>

\* option.converter(value)
Convert(converter, value) ==
    CASE converter = "strip" -> Strip(value)
      [] converter = "split_multiple" -> split_multiple(value)
      [] converter = "get_sentry_logging" -> get_sentry_logging(value)

\* logutils.fetch_git_sha(path): the commit, or InvalidGitRepository raised
fetch_git_sha(path) ==
    IF path \in DOMAIN git_repos
    THEN [raised |-> "", value |-> git_repos[path]]
    ELSE [raised |-> "InvalidGitRepository", value |-> None]

\* the keys SanitizeOdooCookiesProcessor masks, and its mask
SensitiveKeys == {"session_id"}
MASK == "********"

\* SanitizeOdooCookiesProcessor().process(event): sensitive values masked in place
Sanitize(ev) ==
    [s \in DOMAIN ev |->
        [k \in DOMAIN ev[s] |-> IF k \in SensitiveKeys THEN MASK ELSE ev[s][k]]]

----------------------------------------------------------------------------
(* get_config *)

\* get_config with the two lookups swapped: the unstaged key shadows the staged one
get_config_unstaged_first(key, default) ==
    LET stage == DictGet(environ, "ODOO_STAGE", "nostage") IN
    DictGet(odoo_config, "sentry_" \o key,
            DictGet(odoo_config, "sentry_" \o stage \o "_" \o key, default))

\* get_config(key, default): odoo_config.get(staged, odoo_config.get(unstaged, default))
get_config(key, default) ==
    LET stage == DictGet(environ, "ODOO_STAGE", "nostage") IN
    DictGet(odoo_config, "sentry_" \o stage \o "_" \o key,
            DictGet(odoo_config, "sentry_" \o key, default))

----------------------------------------------------------------------------
(* get_odoo_commit *)

\* get_odoo_commit without its except clause: InvalidGitRepository propagates
get_odoo_commit_propagating(odoo_dir) ==
    IF ~Truthy(odoo_dir) THEN [raised |-> "", ret |-> None, log |-> <<>>, reads |-> {}]
    ELSE LET r == fetch_git_sha(odoo_dir) IN
         [raised |-> r.raised, ret |-> r.value, log |-> <<>>, reads |-> {odoo_dir}]

\* get_odoo_commit(odoo_dir): what the call raises, returns, logs and reads
get_odoo_commit(odoo_dir) ==
    IF ~Truthy(odoo_dir) THEN [raised |-> "", ret |-> None, log |-> <<>>, reads |-> {}]
    ELSE LET r == fetch_git_sha(odoo_dir) IN
         IF r.raised = "InvalidGitRepository"
         THEN [raised |-> "", ret |-> None,
               log |-> << <<"debug", "Odoo directory: '" \o odoo_dir
                                     \o "' not a valid git repository">> >>,
               reads |-> {odoo_dir}]
         ELSE [raised |-> r.raised, ret |-> r.value, log |-> <<>>, reads |-> {odoo_dir}]


----------------------------------------------------------------------------
(* before_send *)

\* the dict after d.setdefault(k, v)
SetDefault(d, k, v) == IF k \in DOMAIN d THEN d ELSE DictSet(d, k, v)

\* dict.update with the argument's values discarded where the key exists already
DictUpdate_keep(d, other) ==
    [k \in DOMAIN d \cup DOMAIN other |-> IF k \in DOMAIN d THEN d[k] ELSE other[k]]

\* the dict after d.update(other): other's values win
DictUpdate(d, other) ==
    [k \in DOMAIN d \cup DOMAIN other |-> IF k \in DOMAIN other THEN other[k] ELSE d[k]]

info_request == <<"tags", "user", "extra", "request">>

RECURSIVE MergeContext(_, _, _)
\* the loop over info_request: event.setdefault(item, {}).update(cxtest.setdefault(item, {}))
MergeContext(ev, cxtest, items) ==
    IF items = <<>> THEN ev
    ELSE LET item == Head(items)
             info_item == SetDefault(ev, item, EmptyDict)[item]
         IN MergeContext(DictSet(ev, item, DictUpdate(info_item, DictGet(cxtest, item, EmptyDict))),
                         cxtest, Tail(items))

\* get_extra_context(odoo.http.request)
get_extra_context == request_ctx

\* the flag of the root logger read instead, which is always set
Propagates_root(name) == TRUE

\* logging.getLogger(name).propagate: a logger never configured propagates
Propagates(name) == IF name \in DOMAIN propagate THEN propagate[name] ELSE TRUE

\* lines 48-52: the qualified name of the log record's message object
QualifiedName(record) ==
    IF "msg" \in DOMAIN record /\ "__module__" \in DOMAIN record["msg"]
    THEN record["msg"]["__module__"] \o "." \o record["msg"]["__class__"]
    ELSE "not found"

\* lines 58-61: the name of the originating logger
LoggerName(record) == IF "name" \in DOMAIN record THEN record["name"] ELSE None

\* lines 66-77: context, sanitization and return
Enrich(ev) ==
    LET ev1 == SetDefault(ev, "tags", EmptyDict) IN
    IF "include_context" \notin DOMAIN ev1["tags"]
    THEN [raised |-> "KeyError", ret |-> None, event |-> ev1]
    ELSE LET ev2 == IF Truthy(ev1["tags"]["include_context"])
                    THEN MergeContext(ev1, get_extra_context, info_request)
                    ELSE ev1
         IN [raised |-> "", ret |-> "<event>", event |-> Sanitize(ev2)]

\* before_send with the filter applied whether or not the hint has exc_info
before_send_always_filter(ev, h) ==
    IF "log_record" \in DOMAIN h /\ InIgnored(QualifiedName(h["log_record"]))
    THEN [raised |-> "", ret |-> None, event |-> ev]
    ELSE IF /\ "log_record" \in DOMAIN h
            /\ Truthy(LoggerName(h["log_record"]))
            /\ ~Propagates(LoggerName(h["log_record"]))
    THEN [raised |-> "", ret |-> None, event |-> ev]
    ELSE Enrich(ev)

\* before_send(event, hint): what the call raises and returns, and the event after it
before_send(ev, h) ==
    LET filtering == DictGet(h, "exc_info", None) = None /\ "log_record" \in DOMAIN h IN
    IF filtering /\ InIgnored(QualifiedName(h["log_record"]))
    THEN [raised |-> "", ret |-> None, event |-> ev]
    ELSE IF /\ filtering
            /\ Truthy(LoggerName(h["log_record"]))
            /\ ~Propagates(LoggerName(h["log_record"]))
    THEN [raised |-> "", ret |-> None, event |-> ev]
    ELSE Enrich(ev)


----------------------------------------------------------------------------
(* initialize_sentry, statement by statement *)

NoCall == [op |-> "<none>", args |-> <<>>, raised |-> "", ret |-> None]

RECURSIVE ResolveOptions(_, _)
\* lines 123-128: the loop over the option table
ResolveOptions(table, acc) ==
    IF table = <<>> THEN acc
    ELSE LET option == Head(table)
             value == get_config(option.key, option.default)
             converted == IF option.converter # "<None>"
                          THEN Convert(option.converter, value)
                          ELSE value
         IN ResolveOptions(Tail(table), DictSet(acc, option.key, converted))

\* lines 134-137: the release fallback
ResolveRelease(opts) ==
    LET goc == get_odoo_commit(get_config("odoo_dir", None)) IN
    IF ~Truthy(DictGet(opts, "release", None))
    THEN [raised |-> goc.raised, log |-> goc.log, reads |-> goc.reads,
          options |-> DictSet(opts, "release", get_config("release", goc.ret))]
    ELSE [raised |-> "", log |-> <<>>, reads |-> {}, options |-> opts]

\* lines 139-151: ignore_errors, before_send and integrations
AssembleOptions(opts) ==
    LET renamed == DictDel(DictSet(opts, "ignore_errors", opts["ignore_exceptions"]),
                           "ignore_exceptions")
        hooked == DictSet(renamed, "before_send", "before_send")
        integrated == DictSet(hooked, "integrations",
                              <<hooked["logging_level"],
                                "ThreadingIntegration(propagate_hub=True)">>)
    IN DictDel(integrated, "logging_level")

\* lines 108-110 with "or" for "and" in the guard
Enabled_either ==
    HAS_SENTRY_SDK \/ Truthy(get_config("enabled", False))

\* lines 108-109: HAS_SENTRY_SDK and enabled
Enabled ==
    HAS_SENTRY_SDK /\ Truthy(get_config("enabled", False))

\* lines 108-110: the call returns at once
InitializeSkip ==
    /\ pc = "idle"
    /\ ~Enabled
    /\ call' = [op |-> "initialize_sentry", args |-> <<>>, raised |-> "", ret |-> None]
    /\ UNCHANGED <<hostVars, sdkVars, wsgiVars, log, warned, git_reads, pc, options,
                   exclude_loggers, filterVars>>

\* lines 108-110: the call goes on
InitializeEnter ==
    /\ pc = "idle"
    /\ Enabled
    /\ Application < MaxWraps
    /\ pc' = "prepare"
    /\ call' = [op |-> "initialize_sentry", args |-> <<>>, raised |-> "",
                ret |-> "<running>"]
    /\ UNCHANGED <<hostVars, sdkVars, wsgiVars, log, warned, git_reads, options,
                   exclude_loggers, filterVars>>

\* lines 111-151: the log and warning, the options and the excluded loggers
Prepare ==
    /\ pc = "prepare"
    /\ LET both == Truthy(get_config("odoo_dir", None)) /\ Truthy(get_config("release", None))
           announced == <<<<"info", "Initializing sentry...">>>>
                        \o (IF both
                            THEN <<<<"debug", "Both sentry_odoo_dir and sentry_release defined, choosing sentry_release">>>>
                            ELSE <<>>)
           resolved == ResolveRelease(ResolveOptions(get_sentry_options, EmptyDict))
       IN /\ warned' = IF Truthy(get_config("transport", None))
                       THEN warned \cup {"DeprecationWarning"}
                       ELSE warned
          /\ log' = log \o announced \o resolved.log
          /\ git_reads' = git_reads \cup resolved.reads
          /\ IF resolved.raised # ""
             THEN /\ pc' = "idle"
                  /\ call' = [call EXCEPT !.raised = resolved.raised, !.ret = None]
                  /\ UNCHANGED <<options, exclude_loggers>>
             ELSE /\ pc' = "init"
                  /\ options' = AssembleOptions(resolved.options)
                  /\ exclude_loggers' =
                        split_multiple(get_config("exclude_loggers", DEFAULT_EXCLUDE_LOGGERS))
                  /\ UNCHANGED call
    /\ UNCHANGED <<hostVars, sdkVars, wsgiVars, filterVars>>

\* line 153: client = sentry_sdk.init(**options)
SdkInit ==
    /\ pc = "init"
    /\ sdk_inits' = Append(sdk_inits, options)
    /\ pc' = "tag"
    /\ UNCHANGED <<hostVars, sdk_tags, ignored_loggers, wsgiVars, log, warned, git_reads,
                   options, exclude_loggers, call, filterVars>>

\* line 155: sentry_sdk.set_tag("include_context", ...)
SetTag ==
    /\ pc = "tag"
    /\ sdk_tags' = DictSet(sdk_tags, "include_context", get_config("include_context", True))
    /\ pc' = "ignore"
    /\ UNCHANGED <<hostVars, sdk_inits, ignored_loggers, wsgiVars, log, warned, git_reads,
                   options, exclude_loggers, call, filterVars>>

\* lines 157-159: ignore_logger for every excluded logger
IgnoreLoggers ==
    /\ pc = "ignore"
    /\ ignored_loggers' =
          ignored_loggers \cup {exclude_loggers[i] : i \in DOMAIN exclude_loggers}
    /\ pc' = "server"
    /\ UNCHANGED <<hostVars, sdk_inits, sdk_tags, wsgiVars, log, warned, git_reads,
                   options, exclude_loggers, call, filterVars>>

\* lines 162-163: server.app wrapped when the server exists
PatchServer ==
    /\ pc = "server"
    /\ server_app' = IF server THEN server_app + 1 ELSE server_app
    /\ pc' = "application"
    /\ UNCHANGED <<hostVars, sdkVars, Application, log, warned, git_reads,
                   options, exclude_loggers, call, filterVars>>

\* line 166 done twice over
PatchApplication_twice ==
    /\ pc = "application"
    /\ Application' = Application + 2
    /\ pc' = "return"
    /\ UNCHANGED <<hostVars, sdkVars, server_app, log, warned, git_reads,
                   options, exclude_loggers, call, filterVars>>

\* line 166: odoo.http.Application wrapped
PatchApplication ==
    /\ pc = "application"
    /\ Application' = Application + 1
    /\ pc' = "return"
    /\ UNCHANGED <<hostVars, sdkVars, server_app, log, warned, git_reads,
                   options, exclude_loggers, call, filterVars>>

\* lines 168-173: the scope pushed and popped, the client returned
Return ==
    /\ pc = "return"
    /\ call' = [call EXCEPT !.ret = "<client>"]
    /\ pc' = "idle"
    /\ options' = EmptyDict
    /\ exclude_loggers' = <<>>
    /\ UNCHANGED <<hostVars, sdkVars, wsgiVars, log, warned, git_reads, filterVars>>


----------------------------------------------------------------------------
(* Direct calls of get_config, get_odoo_commit and before_send *)

ProbeKeys == {"enabled", "release", "dsn"}
ProbeDefaults == {None, False, "fallback"}
ProbeDirs == {None, "", "/repo", "/data", "/nogit"}

\* a call of get_config(key, default)
GetConfig ==
    /\ pc = "idle"
    /\ \E key \in ProbeKeys, default \in ProbeDefaults :
          call' = [op |-> "get_config", args |-> <<key, default>>, raised |-> "",
                   ret |-> get_config(key, default)]
    /\ UNCHANGED <<hostVars, sdkVars, wsgiVars, log, warned, git_reads, pc, options,
                   exclude_loggers, filterVars>>

\* a call of get_odoo_commit(odoo_dir)
GetOdooCommit ==
    /\ pc = "idle"
    /\ Len(log) < MaxLog
    /\ \E odoo_dir \in ProbeDirs :
          LET r == get_odoo_commit(odoo_dir) IN
          /\ call' = [op |-> "get_odoo_commit", args |-> <<odoo_dir>>,
                      raised |-> r.raised, ret |-> r.ret]
          /\ log' = log \o r.log
          /\ git_reads' = git_reads \cup r.reads
    /\ UNCHANGED <<hostVars, sdkVars, wsgiVars, warned, pc, options, exclude_loggers,
                   filterVars>>

Pending == [raised |-> "", ret |-> "<pending>"]

\* the SDK's call of before_send(event, hint)
BeforeSend ==
    /\ bs_ret = Pending
    /\ LET r == before_send(event0, hint) IN
       /\ event' = r.event
       /\ bs_ret' = [raised |-> r.raised, ret |-> r.ret]
    /\ UNCHANGED <<hostVars, sdkVars, wsgiVars, log, warned, git_reads, pc, options,
                   exclude_loggers, call, event0, hint, request_ctx, propagate>>

----------------------------------------------------------------------------
(* Initial states *)

\* a dict with the key absent, or present with one of the values
Choice(key, values) == {EmptyDict} \cup {key :> v : v \in values}

\* the process right after the module is imported
Fresh ==
    /\ server_app = 0
    /\ Application = 0
    /\ sdk_inits = <<>>
    /\ sdk_tags = EmptyDict
    /\ ignored_loggers = {}
    /\ log = <<>>
    /\ warned = {}
    /\ git_reads = {}
    /\ pc = "idle"
    /\ options = EmptyDict
    /\ exclude_loggers = <<>>
    /\ call = NoCall

\* no event in flight
NoEvent ==
    /\ event0 = EmptyDict
    /\ event = EmptyDict
    /\ hint = EmptyDict
    /\ request_ctx = EmptyDict
    /\ propagate = EmptyDict
    /\ bs_ret = Pending

Environs == {EmptyDict, "ODOO_STAGE" :> "production"}

\* configurations of the keys initialize_sentry reads
Configs ==
    {a @@ b @@ c @@ d @@ e @@ f @@ g @@ h :
        a \in Choice("sentry_enabled", {True, False}),
        b \in Choice("sentry_production_enabled", {True, False}),
        c \in Choice("sentry_release", {"", "v1"}),
        d \in Choice("sentry_production_release", {"", "v2"}),
        e \in Choice("sentry_odoo_dir", {"/nogit", "/repo"}),
        f \in Choice("sentry_transport", {"threaded"}),
        g \in Choice("sentry_include_context", {False}),
        h \in Choice("sentry_exclude_loggers", {"werkzeug, odoo.sql_db"})}

Init ==
    /\ environ \in Environs
    /\ odoo_config \in Configs
    /\ HAS_SENTRY_SDK \in BOOLEAN
    /\ server \in BOOLEAN
    /\ git_repos = ("/repo" :> "4f2a9c1")
    /\ Fresh
    /\ NoEvent

Next ==
    \/ InitializeSkip
    \/ InitializeEnter
    \/ Prepare
    \/ SdkInit
    \/ SetTag
    \/ IgnoreLoggers
    \/ PatchServer
    \/ PatchApplication
    \/ Return

Spec == Init /\ [][Next]_vars

\* configurations of the staged and unstaged keys of two options
ResolveEnvirons == Environs \cup {"ODOO_STAGE" :> "staging"}

ResolveConfigs ==
    {a @@ b @@ c @@ d @@ e :
        a \in Choice("sentry_enabled", {True, False}),
        b \in Choice("sentry_production_enabled", {True, False}),
        c \in Choice("sentry_nostage_enabled", {True, False}),
        d \in Choice("sentry_release", {"", "v1"}),
        e \in Choice("sentry_staging_release", {"v3"})}

InitResolve ==
    /\ environ \in ResolveEnvirons
    /\ odoo_config \in ResolveConfigs
    /\ HAS_SENTRY_SDK \in BOOLEAN
    /\ server \in BOOLEAN
    /\ git_repos = ("/repo" :> "4f2a9c1")
    /\ Fresh
    /\ NoEvent

NextResolve == GetConfig \/ Next

SpecResolve == InitResolve /\ [][NextResolve]_vars

\* file systems: each directory a repository at one of two commits, or none
FileSystems ==
    {a @@ b : a \in Choice("/repo", {"4f2a9c1", "b7e0d33"}),
              b \in Choice("/data", {"4f2a9c1", "b7e0d33"})}

InitCommit ==
    /\ environ = EmptyDict
    /\ odoo_config = EmptyDict
    /\ HAS_SENTRY_SDK \in BOOLEAN
    /\ server = FALSE
    /\ git_repos \in FileSystems
    /\ Fresh
    /\ NoEvent

NextCommit == GetOdooCommit

SpecCommit == InitCommit /\ [][NextCommit]_vars

\* message objects of a log record: two ignored exceptions, another exception, a str
MsgObjects ==
    { [__module__ |-> "odoo.exceptions", __class__ |-> "AccessError"],
      [__module__ |-> "odoo.exceptions", __class__ |-> "UserError"],
      [__module__ |-> "builtins", __class__ |-> "ValueError"],
      [__class__ |-> "str"] }

LogRecords ==
    {m @@ n : m \in {EmptyDict} \cup {"msg" :> o : o \in MsgObjects},
              n \in Choice("name", {"", "odoo.http", "odoo.muted"})}

Hints ==
    {x @@ r : x \in Choice("exc_info", {None, "<exc_info>"}),
              r \in {EmptyDict} \cup {"log_record" :> l : l \in LogRecords}}

TagDicts ==
    { EmptyDict,
      "database" :> "orig",
      "include_context" :> True,
      "include_context" :> False,
      ("include_context" :> True) @@ ("database" :> "orig") }

Events ==
    {t @@ u @@ x @@ r :
        t \in Choice("tags", TagDicts),
        u \in Choice("user", {"id" :> "orig"}),
        x \in Choice("extra", {"session_id" :> "secret"}),
        r \in Choice("request", {"url" :> "orig"})}

\* request contexts: none, one without a request section, a full one
Contexts ==
    { EmptyDict,
      [tags |-> "database" :> "ctx", user |-> ("id" :> "ctx") @@ ("login" :> "admin"),
       extra |-> "context" :> "ctx"],
      [tags |-> "database" :> "ctx", user |-> ("id" :> "ctx") @@ ("login" :> "admin"),
       extra |-> ("context" :> "ctx") @@ ("session_id" :> "ctxsecret"),
       request |-> ("url" :> "ctx") @@ ("method" :> "GET")] }

InitFilter ==
    /\ environ = EmptyDict
    /\ odoo_config = EmptyDict
    /\ HAS_SENTRY_SDK = TRUE
    /\ server = TRUE
    /\ git_repos = EmptyDict
    /\ Fresh
    /\ event0 \in Events
    /\ event = event0
    /\ hint \in Hints
    /\ request_ctx \in Contexts
    /\ propagate \in [{"odoo.http", "odoo.muted"} -> BOOLEAN]
    /\ bs_ret = Pending

NextFilter == BeforeSend

SpecFilter == InitFilter /\ [][NextFilter]_vars


----------------------------------------------------------------------------
(* Properties *)

\* the stage get_config reads
StageOf == IF "ODOO_STAGE" \in DOMAIN environ THEN environ["ODOO_STAGE"] ELSE "nostage"

\* get_config's answer spelled out by cases on the keys present
Precedence(key, default) ==
    LET staged == "sentry_" \o StageOf \o "_" \o key
        unstaged == "sentry_" \o key
    IN IF staged \in DOMAIN odoo_config THEN odoo_config[staged]
       ELSE IF unstaged \in DOMAIN odoo_config THEN odoo_config[unstaged]
       ELSE default

\* C1: get_config(key, default) is the staged key's value when that key is
\* present, else the unstaged key's value when that is present, else default;
\* and with ODOO_STAGE=production, sentry_production_enabled true and
\* sentry_enabled false the enabled check passes: with the SDK installed a call
\* of initialize_sentry is not skipped.
C1_StagedOverUnstagedOverDefault ==
    /\ call.op = "get_config" => call.ret = Precedence(call.args[1], call.args[2])
    /\ ( /\ call.op = "initialize_sentry"
         /\ HAS_SENTRY_SDK
         /\ StageOf = "production"
         /\ DictGet(odoo_config, "sentry_production_enabled", None) = True
         /\ DictGet(odoo_config, "sentry_enabled", None) = False )
       => call.ret \in {"<running>", "<client>"}

\* C1 witness: both keys present with different values, the staged one returned
C1_Witness ==
    /\ StageOf = "production"
    /\ DictGet(odoo_config, "sentry_production_enabled", None) = True
    /\ DictGet(odoo_config, "sentry_enabled", None) = False
    /\ call = [op |-> "get_config", args |-> <<"enabled", False>>, raised |-> "",
               ret |-> True]

\* the hint has no exc_info and carries a log record
OnLogRecordPath ==
    /\ bs_ret # Pending
    /\ ("exc_info" \in DOMAIN hint => hint["exc_info"] = None)
    /\ "log_record" \in DOMAIN hint

Dropped == [raised |-> "", ret |-> None]

\* C2: with no exc_info and a log record whose message object's qualified name
\* is any name of the ignored list, before_send returns None, whatever the
\* event and the logger's propagation.
C2_IgnoredNameDropped ==
    \A i \in DOMAIN DEFAULT_IGNORED_EXCEPTIONS :
        ( /\ OnLogRecordPath
          /\ "msg" \in DOMAIN hint["log_record"]
          /\ "__module__" \in DOMAIN hint["log_record"]["msg"]
          /\ hint["log_record"]["msg"]["__module__"] \o "."
                \o hint["log_record"]["msg"]["__class__"] = DEFAULT_IGNORED_EXCEPTIONS[i] )
        => bs_ret = Dropped

\* C2 witness: the last name of the list, a propagating logger, an event with context
C2_Witness ==
    /\ OnLogRecordPath
    /\ hint["log_record"] = [msg |-> [__module__ |-> "odoo.exceptions",
                                      __class__ |-> "UserError"],
                             name |-> "odoo.http"]
    /\ propagate["odoo.http"]
    /\ "tags" \in DOMAIN event0
    /\ bs_ret = Dropped

\* the log record's logger has a non-empty name and does not propagate
LoggerMuted ==
    /\ "name" \in DOMAIN hint["log_record"]
    /\ hint["log_record"]["name"] # ""
    /\ hint["log_record"]["name"] \in DOMAIN propagate
    /\ ~propagate[hint["log_record"]["name"]]

\* C3: with no exc_info and a log record whose logger has a non-empty name and
\* propagation disabled, before_send returns None, whatever the qualified name.
C3_MutedLoggerDropped ==
    (OnLogRecordPath /\ LoggerMuted) => bs_ret = Dropped

\* C3 witness: a muted logger and a message object with no qualified name
C3_Witness ==
    /\ OnLogRecordPath
    /\ LoggerMuted
    /\ "msg" \in DOMAIN hint["log_record"]
    /\ hint["log_record"]["msg"] = [__class__ |-> "str"]
    /\ bs_ret = Dropped

\* the event came back and its include_context tag was true
Merged ==
    /\ bs_ret = [raised |-> "", ret |-> "<event>"]
    /\ "tags" \in DOMAIN event0
    /\ "include_context" \in DOMAIN event0["tags"]
    /\ event0["tags"]["include_context"] = True

\* the keys of a section of a dict of sections, none when the section is missing
KeysOf(sections, s) == IF s \in DOMAIN sections THEN DOMAIN sections[s] ELSE {}

Sections == {info_request[i] : i \in DOMAIN info_request}

\* C4 as stated: after a merge every key a section had keeps its original value,
\* also when the request context carries the same key, and every key of the
\* request context is there (values the sanitizer masks left aside).
C4_OriginalValuesKept ==
    Merged =>
        \A s \in Sections :
            /\ s \in DOMAIN event
            /\ \A k \in KeysOf(event0, s) :
                  /\ k \in DOMAIN event[s]
                  /\ k \notin SensitiveKeys => event[s][k] = event0[s][k]
            /\ KeysOf(request_ctx, s) \subseteq DOMAIN event[s]

\* C4 amended: after a merge each of the four sections holds exactly the keys it
\* had and the keys of the request context; a key keeps its original value only
\* when the request context does not carry it, otherwise it takes the request
\* context's value (values the sanitizer masks left aside).
C4_MergeIsUpdate ==
    Merged =>
        \A s \in Sections :
            /\ s \in DOMAIN event
            /\ DOMAIN event[s] = KeysOf(event0, s) \cup KeysOf(request_ctx, s)
            /\ \A k \in DOMAIN event[s] \ SensitiveKeys :
                  event[s][k] = IF k \in KeysOf(request_ctx, s)
                                THEN request_ctx[s][k]
                                ELSE event0[s][k]

\* C4 witness: a tag the event and the request context both carry, and a new key
C4_Witness ==
    /\ Merged
    /\ DictGet(event0["tags"], "database", None) = "orig"
    /\ "tags" \in DOMAIN request_ctx
    /\ request_ctx["tags"]["database"] = "ctx"
    /\ event["tags"]["database"] = "ctx"
    /\ "user" \in DOMAIN event0
    /\ event["user"]["login"] = "admin"

\* C5: a call of initialize_sentry with the SDK missing or the enabled flag
\* false returns None, raises nothing and changes no process-wide state: no
\* client, no tag, no ignored logger, no wrapped server.app or Application.
C5_SkipChangesNothing ==
    [][ ( /\ pc = "idle"
          /\ call'.op = "initialize_sentry"
          /\ ~HAS_SENTRY_SDK \/ ~Truthy(Precedence("enabled", False)) )
        => /\ pc' = "idle"
           /\ call'.ret = None
           /\ call'.raised = ""
           /\ UNCHANGED <<hostVars, sdkVars, wsgiVars, log, warned, git_reads>> ]_vars

\* C5 witness: the flag is set, the SDK is missing, the call was skipped
C5_Witness ==
    /\ ~HAS_SENTRY_SDK
    /\ Truthy(Precedence("enabled", False))
    /\ pc = "idle"
    /\ call = [op |-> "initialize_sentry", args |-> <<>>, raised |-> "", ret |-> None]
    /\ sdk_inits = <<>>
    /\ Application = 0

\* the commit of the directory odoo_dir resolves to, None when there is none
GitFallback ==
    LET odoo_dir == Precedence("odoo_dir", None) IN
    IF Truthy(odoo_dir) /\ odoo_dir \in DOMAIN git_repos THEN git_repos[odoo_dir] ELSE None

\* C6: the release passed to the client is the resolved release option when
\* that is non-empty; and whenever no non-empty release is configured the git
\* fallback is the result: the commit of the repository odoo_dir points at.
C6_ReleaseOrGitFallback ==
    \A i \in DOMAIN sdk_inits :
        /\ Truthy(Precedence("release", None)) =>
              sdk_inits[i]["release"] = Precedence("release", None)
        /\ (~Truthy(Precedence("release", None)) /\ GitFallback # None) =>
              sdk_inits[i]["release"] = GitFallback

\* C7: get_odoo_commit raises nothing; for "" or None it returns None and the
\* git reader is not called; for a directory that is no repository it returns
\* None and logs one record, at debug level; for a repository it returns the
\* commit.
C7_CommitNeverRaises ==
    [][ call'.op = "get_odoo_commit" =>
        LET odoo_dir == call'.args[1] IN
        /\ call'.raised = ""
        /\ odoo_dir \in {None, ""} =>
              call'.ret = None /\ git_reads' = git_reads /\ log' = log
        /\ (odoo_dir \notin {None, ""} /\ odoo_dir \notin DOMAIN git_repos) =>
              /\ call'.ret = None
              /\ Len(log') = Len(log) + 1
              /\ SubSeq(log', 1, Len(log)) = log
              /\ log'[Len(log')][1] = "debug"
        /\ odoo_dir \in DOMAIN git_repos =>
              call'.ret = git_repos[odoo_dir] /\ log' = log ]_vars

\* C7 witness: a directory that is no repository, None returned, a debug record
C7_Witness ==
    /\ call = [op |-> "get_odoo_commit", args |-> <<"/nogit">>, raised |-> "",
               ret |-> None]
    /\ log # <<>>
    /\ log[Len(log)] = <<"debug", "Odoo directory: '/nogit' not a valid git repository">>

\* C8: before_send never raises.
C8_BeforeSendNeverRaises ==
    bs_ret.raised = ""

\* C9: a non-skipped call wraps Application once, server.app once when the
\* server exists and never otherwise, and only after its client exists; no
\* step unwraps; when the n-th non-skipped call returns Application is under n
\* layers.
C9_WrapOncePerCall ==
    [][ /\ Application' >= Application
        /\ server_app' >= server_app
        /\ Application' # Application =>
              Application' = Application + 1 /\ Len(sdk_inits) = Application'
        /\ server_app' # server_app =>
              server /\ server_app' = server_app + 1 /\ Len(sdk_inits) = server_app'
        /\ (pc = "return" /\ pc' = "idle") =>
              /\ Application' = Len(sdk_inits')
              /\ server_app' = IF server THEN Len(sdk_inits') ELSE 0 ]_vars

\* C9 witness: two non-skipped calls have returned, both references twice wrapped
C9_Witness ==
    /\ pc = "idle"
    /\ call.ret = "<client>"
    /\ Len(sdk_inits) = 2
    /\ Application = 2
    /\ server
    /\ server_app = 2

\* C10: with an exc_info in the hint, or with no log record, before_send does
\* not return None: it raises or returns the event it was given.
C10_DropOnlyOnLogRecordPath ==
    ( /\ bs_ret # Pending
      /\ \/ ("exc_info" \in DOMAIN hint /\ hint["exc_info"] # None)
         \/ "log_record" \notin DOMAIN hint )
    => (bs_ret.raised = "" => bs_ret.ret = "<event>")

\* C10 witness: exc_info present beside an ignored name on a muted logger
C10_Witness ==
    /\ bs_ret = [raised |-> "", ret |-> "<event>"]
    /\ "exc_info" \in DOMAIN hint
    /\ hint["exc_info"] = "<exc_info>"
    /\ "log_record" \in DOMAIN hint
    /\ hint["log_record"] = [msg |-> [__module__ |-> "odoo.exceptions",
                                      __class__ |-> "UserError"],
                             name |-> "odoo.muted"]
    /\ ~propagate["odoo.muted"]


====
